---- MODULE Spec2Model ----
(***************************************************************************)
(* The type-keyed event bridge of bevy_spacetimedb: the StdbPlugin builder, *)
(* Plugin::build, connect_with_token, the table routers of tables.rs, the   *)
(* callbacks they install on the connection, the producer threads that fire *)
(* them and the host's per-tick drain of the registered receivers.          *)
(***************************************************************************)
EXTENDS Naturals, Sequences, FiniteSets, TLC

(***************************************************************************)
(* Bounds of the model.                                                     *)
(***************************************************************************)
\* table registrations stored in table_registers
MaxRegs == 2
\* remote events dispatched by the connection's thread
MaxEvents == 2
\* remote events dispatched by a second thread, where the run function has one
MaxOtherEvents == 1

Rows == {"A", "B"}
Producers == {"p1", "p2"}

(***************************************************************************)
(* Types.  A registrable type T names the table it reads (table_accessor),  *)
(* whether it implements RegisterableTable (primary key) or                 *)
(* RegisterableTableWithoutPk, and its associated Message type; the TypeId  *)
(* of a channel is that of Kind<T::Message>.                                *)
(***************************************************************************)
RegTypes == {"Orders", "OrdersNoPk", "Logs"}

HasPk(T) == T = "Orders"

\* a variant in which every row type hands out the handle of the orders table
TableOfOrders(T) == "orders"

TableOf(T) == IF T = "Logs" THEN "logs" ELSE "orders"

MessageOf(T) == IF T = "Logs" THEN "LogsMsg" ELSE "OrdersMsg"

Tables == {TableOf(T) : T \in RegTypes}

\* the tables whose handle implements TableWithPrimaryKey: only these get
\* update events from the remote system
PkTables == {TableOf(T) : T \in {U \in RegTypes : HasPk(U)}}

Kinds == {"Insert", "Delete", "Update", "InsertUpdate"}

TypeIdOf(kind, T) == [kind |-> kind, msg |-> MessageOf(T)]

\* the three lifecycle message types, in the order build creates their channels
LifecycleKeys == <<[kind |-> "Connected", msg |-> "Stdb"],
                   [kind |-> "Disconnected", msg |-> "Stdb"],
                   [kind |-> "ConnectionError", msg |-> "Stdb"]>>

None == <<>>

Some(x) == <<x>>

(***************************************************************************)
(* TableMessages and TableMessagesWithoutPrimaryKey.                        *)
(***************************************************************************)
TableMessages == [insert : BOOLEAN, update : BOOLEAN, delete : BOOLEAN]

TableMessages_all == [insert |-> TRUE, update |-> TRUE, delete |-> TRUE]

TableMessages_no_update == [insert |-> TRUE, update |-> FALSE, delete |-> TRUE]

TableMessagesWithoutPrimaryKey == [insert : BOOLEAN, delete : BOOLEAN]

TableMessagesWithoutPrimaryKey_all == [insert |-> TRUE, delete |-> TRUE]

VARIABLES
    plugin,           \* StdbPlugin's Option fields (set or not) and delayed_connect
    table_registers,  \* Vec of the register closures: what each captured
    message_senders,  \* HashMap<TypeId, Box<dyn Any>>: key -> [chan, ty]
    channels,         \* every mpsc channel constructed, by identity (index)
    callbacks,        \* callbacks installed on the connection's tables
    pc,               \* position of the main thread
    frame,            \* locals of the registration in progress on the main thread
    locks,            \* mutexes the main thread holds
    conn,             \* the DbConnection: "none", "built", "running"
    resources,        \* resources stored in the bevy World
    prod,             \* producer threads: the event in flight and its pending callbacks
    log,              \* history: events dispatched, counters
    remote,           \* the remote module's tables; the events each thread may still take
    reducer_registers,    \* Vec of the reducer register closures: the reducer of each
    procedure_registers,  \* Vec of the procedure register closures
    reducer_callbacks,    \* completion callbacks installed on the connection's reducers
    procedure_callbacks   \* completion callbacks installed on the connection's procedures

\* what belongs to reducers and procedures
completions == <<reducer_registers, procedure_registers, reducer_callbacks,
                 procedure_callbacks>>

vars == <<plugin, table_registers, message_senders, channels, callbacks, pc,
          frame, locks, conn, resources, prod, log, remote, completions>>

NoFrame == [mode |-> "none", reg |-> 0, calls |-> <<>>, T |-> "none",
            fn |-> "none", chan |-> 0, sender |-> 0]

NoEvent == [on |-> "none", table |-> "none", args |-> <<>>, event |-> <<>>]

StartModule(budget, tables, reducers, procedures) ==
    /\ remote = [budget |-> budget, tables |-> tables,
                 reducers |-> reducers, procedures |-> procedures]
    /\ reducer_registers = <<>>
    /\ procedure_registers = <<>>
    /\ reducer_callbacks = <<>>
    /\ procedure_callbacks = <<>>
    /\ plugin = [uri |-> FALSE, module_name |-> FALSE, run_fn |-> FALSE,
                 delayed_connect |-> FALSE]
    /\ table_registers = <<>>
    /\ message_senders = <<>>
    /\ channels = <<>>
    /\ callbacks = <<>>
    /\ pc = "config"
    /\ frame = NoFrame
    /\ locks = {}
    /\ conn = "none"
    /\ resources = {}
    /\ prod = [p \in Producers |->
                  [ev |-> NoEvent, pending |-> {}, n |-> 0, panicked |-> "no"]]
    /\ log = [events |-> {}, sendErrs |-> 0]

\* an application that uses the tables of the module only
Start(budget, tables) == StartModule(budget, tables, {}, {})

\* one connection thread (DbConnection::run_threaded) and the orders table
Init == Start([p \in Producers |-> IF p = "p1" THEN MaxEvents ELSE 0], {"orders"})

\* a run function that drives the connection from two threads
InitThreads ==
    Start([p \in Producers |-> IF p = "p1" THEN MaxEvents ELSE MaxOtherEvents],
          {"orders"})

\* one connection thread; the module has a table, a reducer and a procedure
InitConnection ==
    StartModule([p \in Producers |-> IF p = "p1" THEN MaxEvents ELSE 0],
                {"orders"}, {"SetName"}, {"GetName"})

\* the registrable types of the application: those of the module's tables
Registrable == {T \in RegTypes : TableOf(T) \in remote.tables}

(***************************************************************************)
(* The builder (plugin.rs 196-260, tables.rs 110-172).                      *)
(***************************************************************************)
with_uri ==
    /\ pc = "config"
    /\ plugin' = [plugin EXCEPT !.uri = TRUE]
    /\ UNCHANGED <<table_registers, message_senders, channels, callbacks, pc,
                   frame, locks, conn, resources, prod, log, remote, completions>>

with_module_name ==
    /\ pc = "config"
    /\ plugin' = [plugin EXCEPT !.module_name = TRUE]
    /\ UNCHANGED <<table_registers, message_senders, channels, callbacks, pc,
                   frame, locks, conn, resources, prod, log, remote, completions>>

with_run_fn ==
    /\ pc = "config"
    /\ plugin' = [plugin EXCEPT !.run_fn = TRUE]
    /\ UNCHANGED <<table_registers, message_senders, channels, callbacks, pc,
                   frame, locks, conn, resources, prod, log, remote, completions>>

with_delayed_connect(delayed) ==
    /\ pc = "config"
    /\ plugin' = [plugin EXCEPT !.delayed_connect = delayed]
    /\ UNCHANGED <<table_registers, message_senders, channels, callbacks, pc,
                   frame, locks, conn, resources, prod, log, remote, completions>>

\* a variant that wires insert-or-update whenever update is requested
RegisterCallsUpdateOnly(messages) ==
    (IF messages.insert THEN <<"on_insert">> ELSE <<>>)
    \o (IF messages.delete THEN <<"on_delete">> ELSE <<>>)
    \o (IF messages.update THEN <<"on_update">> ELSE <<>>)
    \o (IF messages.update THEN <<"on_insert_update">> ELSE <<>>)

\* the calls the register closure of add_partial_table makes, in order
RegisterCalls(messages) ==
    (IF messages.insert THEN <<"on_insert">> ELSE <<>>)
    \o (IF messages.delete THEN <<"on_delete">> ELSE <<>>)
    \o (IF messages.update THEN <<"on_update">> ELSE <<>>)
    \o (IF messages.update /\ messages.insert THEN <<"on_insert_update">> ELSE <<>>)

\* a variant that also wires update for a table without primary key
RegisterCallsWithoutPkUpdate(messages) ==
    (IF messages.insert THEN <<"on_insert_without_pk">> ELSE <<>>)
    \o (IF messages.delete THEN <<"on_delete_without_pk">> ELSE <<>>)
    \o <<"on_update">>

\* the calls the register closure of add_partial_table_without_pk makes
RegisterCallsWithoutPk(messages) ==
    (IF messages.insert THEN <<"on_insert_without_pk">> ELSE <<>>)
    \o (IF messages.delete THEN <<"on_delete_without_pk">> ELSE <<>>)

\* what a stored register closure does when the loop calls it
ClosureCalls(register) ==
    IF register.pk THEN RegisterCalls(register.messages)
    ELSE RegisterCallsWithoutPk(register.messages)

add_partial_table(T, messages) ==
    /\ pc = "config"
    /\ Len(table_registers) < MaxRegs
    /\ table_registers' = Append(table_registers,
           [T |-> T, pk |-> TRUE, messages |-> messages])
    /\ UNCHANGED <<plugin, message_senders, channels, callbacks, pc,
                   frame, locks, conn, resources, prod, log, remote, completions>>

add_table(T) == add_partial_table(T, TableMessages_all)

add_partial_table_without_pk(T, messages) ==
    /\ pc = "config"
    /\ Len(table_registers) < MaxRegs
    /\ table_registers' = Append(table_registers,
           [T |-> T, pk |-> FALSE, messages |-> messages])
    /\ UNCHANGED <<plugin, message_senders, channels, callbacks, pc,
                   frame, locks, conn, resources, prod, log, remote, completions>>

add_table_without_pk(T) ==
    add_partial_table_without_pk(T, TableMessagesWithoutPrimaryKey_all)

Builder ==
    \/ with_uri
    \/ with_module_name
    \/ with_run_fn
    \/ \E delayed \in BOOLEAN : with_delayed_connect(delayed)
    \/ \E T \in {U \in Registrable : HasPk(U)} :
          \/ add_table(T)
          \/ \E messages \in TableMessages : add_partial_table(T, messages)
    \/ \E T \in {U \in Registrable : ~HasPk(U)} :
          \/ add_table_without_pk(T)
          \/ \E messages \in TableMessagesWithoutPrimaryKey :
                add_partial_table_without_pk(T, messages)

\* the builder of an application that registers one table, with all its messages
BuilderSingle ==
    \/ with_uri
    \/ with_module_name
    \/ with_run_fn
    \/ \E delayed \in BOOLEAN : with_delayed_connect(delayed)
    \/ /\ table_registers = <<>>
       /\ \/ \E T \in {U \in Registrable : HasPk(U)} : add_table(T)
          \/ \E T \in {U \in Registrable : ~HasPk(U)} : add_table_without_pk(T)

(***************************************************************************)
(* Channels.  std::sync::mpsc::channel() makes a sender and a receiver; the *)
(* record is the channel, a sender is its index.  `sent` is the history of  *)
(* the messages accepted by send, kept for the properties only.             *)
(***************************************************************************)
NewChannel(ty, by) ==
    [ty |-> ty, by |-> by, registered |-> FALSE, alive |-> TRUE,
     queue |-> <<>>, delivered |-> <<>>, sent |-> <<>>]

\* AddMessageChannelAppExtensions::add_message_channel: the host takes the
\* receiver and drains it on every tick from now on
add_message_channel(chs, c) == [chs EXCEPT ![c].registered = TRUE]

\* Sender::send: Ok and the message queued while the receiver lives, Err after
SendResult(chs, c) == IF chs[c].alive THEN "Ok" ELSE "Err"

\* a variant that queues at the front
SendFront(chs, c, m) ==
    IF chs[c].alive THEN [chs EXCEPT ![c].queue = <<m>> \o @] ELSE chs

Send(chs, c, m) ==
    IF chs[c].alive THEN [chs EXCEPT ![c].queue = Append(@, m)] ELSE chs

\* a variant that delivers what is queued and leaves it queued
DrainKeeps(ch) ==
    IF ch.registered /\ ch.alive
    THEN [ch EXCEPT !.delivered = @ \o ch.queue]
    ELSE ch

\* the host's per-tick drain of one registered receiver
Drain(ch) ==
    IF ch.registered /\ ch.alive
    THEN [ch EXCEPT !.delivered = @ \o ch.queue, !.queue = <<>>]
    ELSE ch

(***************************************************************************)
(* Mutexes of the main thread.  std's Mutex is not reentrant: locking one   *)
(* the thread already holds never returns.                                  *)
(***************************************************************************)
Lock(l, next) ==
    IF l \in locks
    THEN pc' = "deadlocked" /\ UNCHANGED locks
    ELSE pc' = next /\ locks' = locks \cup {l}

(***************************************************************************)
(* Plugin::build (plugin.rs 268-359).                                       *)
(***************************************************************************)
\* a variant of build that looks at the uri only before it goes on
ExpectedUri(pl) == pl.uri

\* 269-274: self.uri.clone().expect(..); self.module_name.clone().expect(..)
Expected(pl) == pl.uri /\ pl.module_name

build_expect ==
    /\ pc = "config"
    /\ pc' = IF Expected(plugin) THEN "build_channels"
             ELSE "panicked"
    /\ UNCHANGED <<plugin, table_registers, message_senders, channels,
                   callbacks, frame, locks, conn, resources, prod, log, remote, completions>>

\* a variant of build that creates the lifecycle channels and leaves their
\* receivers unregistered
RegisterLifecycleLater(ch) == ch

\* 279-281: app.add_message_channel(recv_..) for each lifecycle receiver
RegisterLifecycle(ch) == [ch EXCEPT !.registered = TRUE]

\* 276-281: the three lifecycle channels, their receivers registered
build_channels ==
    /\ pc = "build_channels"
    /\ channels' = channels \o
          [i \in 1..Len(LifecycleKeys) |->
              RegisterLifecycle(NewChannel(LifecycleKeys[i], "build"))]
    /\ pc' = IF plugin.delayed_connect THEN "build_delayed" ELSE "build_conn"
    /\ UNCHANGED <<plugin, table_registers, message_senders, callbacks, frame,
                   locks, conn, resources, prod, log, remote, completions>>

\* a variant in which the delayed branch falls through to the immediate path
DelayedFallsThrough == "build_conn"

\* 306: the delayed branch ends build with `return`
DelayedReturn == "idle"

\* 284-307: delayed mode stores the configuration and returns
build_delayed ==
    /\ pc = "build_delayed"
    /\ IF plugin.run_fn
       THEN /\ resources' = resources \cup {"StdbPluginConfig", "DelayedPluginData"}
            /\ pc' = DelayedReturn
       ELSE /\ pc' = "panicked"
            /\ UNCHANGED resources
    /\ UNCHANGED <<plugin, table_registers, message_senders, channels,
                   callbacks, frame, locks, conn, prod, log, remote, completions>>

\* 310-340 and 75-102: DbConnectionBuilder ... build().expect(..)
build_connection(at, mode) ==
    /\ pc = at
    /\ \/ /\ conn' = "built"
          /\ pc' = "table_lock"
          /\ frame' = [NoFrame EXCEPT !.mode = mode]
       \/ /\ pc' = "panicked"
          /\ UNCHANGED <<conn, frame>>
    /\ UNCHANGED <<plugin, table_registers, message_senders, channels,
                   callbacks, locks, resources, prod, log, remote, completions>>

build_conn == build_connection("build_conn", "build")

(***************************************************************************)
(* connect_with_token (plugin.rs 58-136), called from a system of the       *)
(* running app.                                                             *)
(***************************************************************************)
\* a variant that reads the stored configuration and leaves it in the app
PeekConfig(res) == res

\* 65: world.remove_resource::<StdbPluginConfig<C, M>>()
TakeConfig(res) == res \ {"StdbPluginConfig"}

\* 65-66
connect_config ==
    /\ pc = "idle"
    /\ IF "StdbPluginConfig" \in resources
       THEN /\ resources' = TakeConfig(resources)
            /\ pc' = "connect_data"
       ELSE /\ pc' = "panicked"
            /\ UNCHANGED resources
    /\ UNCHANGED <<plugin, table_registers, message_senders, channels,
                   callbacks, frame, locks, conn, prod, log, remote, completions>>

\* 68-69
connect_data ==
    /\ pc = "connect_data"
    /\ IF "DelayedPluginData" \in resources
       THEN /\ resources' = resources \ {"DelayedPluginData"}
            /\ pc' = "connect_conn"
       ELSE /\ pc' = "panicked"
            /\ UNCHANGED resources
    /\ UNCHANGED <<plugin, table_registers, message_senders, channels,
                   callbacks, frame, locks, conn, prod, log, remote, completions>>

connect_conn == build_connection("connect_conn", "connect")

(***************************************************************************)
(* The registration loops (plugin.rs 342-353 and 120-132).                  *)
(***************************************************************************)
\* 343 / 121
table_lock ==
    /\ pc = "table_lock"
    /\ Lock("table_registers", "table_loop")
    /\ frame' = [frame EXCEPT !.reg = 1]
    /\ UNCHANGED <<plugin, table_registers, message_senders, channels,
                   callbacks, conn, resources, prod, log, remote, completions>>

\* 344-347 / 122-125: call the next register closure, or drop the guard
\* a variant that goes from the table loop straight to run_fn
AfterTablesRun == "run"

\* 347-349 / 126-128: the reducer registrations follow the table registrations
AfterTables == "reducer_lock"

table_loop ==
    /\ pc = "table_loop"
    /\ IF frame.reg <= Len(table_registers)
       THEN /\ frame' = [frame EXCEPT !.T = table_registers[frame.reg].T,
                                      !.calls = ClosureCalls(table_registers[frame.reg])]
            /\ pc' = "closure"
            /\ UNCHANGED locks
       ELSE /\ locks' = locks \ {"table_registers"}
            /\ pc' = AfterTables
            /\ UNCHANGED frame
    /\ UNCHANGED <<plugin, table_registers, message_senders, channels,
                   callbacks, conn, resources, prod, log, remote, completions>>

\* tables.rs 120-133 / 157-164: the body of a register closure, call by call
closure ==
    /\ pc = "closure"
    /\ IF frame.calls = <<>>
       THEN /\ frame' = [frame EXCEPT !.reg = @ + 1, !.T = "none"]
            /\ pc' = "table_loop"
       ELSE /\ frame' = [frame EXCEPT !.fn = Head(frame.calls),
                                      !.calls = Tail(frame.calls)]
            /\ pc' = "on_lock"
    /\ UNCHANGED <<plugin, table_registers, message_senders, channels,
                   callbacks, locks, conn, resources, prod, log, remote, completions>>

\* 349 / 128: self.reducer_registers.lock().unwrap()
reducer_lock ==
    /\ pc = "reducer_lock"
    /\ Lock("reducer_registers", "reducer_loop")
    /\ frame' = [frame EXCEPT !.reg = 1]
    /\ UNCHANGED <<plugin, table_registers, message_senders, channels,
                   callbacks, conn, resources, prod, log, remote, completions>>

\* 350-352 / 129-132: call the next reducer register closure, or drop the
\* guard.  There is no such loop over procedure_registers.
reducer_loop ==
    /\ pc = "reducer_loop"
    /\ IF frame.reg <= Len(reducer_registers)
       THEN /\ frame' = [frame EXCEPT !.T = reducer_registers[frame.reg]]
            /\ pc' = "reducer_channel"
            /\ UNCHANGED locks
       ELSE /\ locks' = locks \ {"reducer_registers"}
            /\ pc' = "run"
            /\ UNCHANGED frame
    /\ UNCHANGED <<plugin, table_registers, message_senders, channels,
                   callbacks, conn, resources, prod, log, remote, completions>>

\* 355-356 / 134: run_fn(conn)
run ==
    /\ pc = "run"
    /\ IF frame.mode = "connect" \/ plugin.run_fn
       THEN conn' = "running" /\ pc' = "insert_conn"
       ELSE pc' = "panicked" /\ UNCHANGED conn
    /\ UNCHANGED <<plugin, table_registers, message_senders, channels,
                   callbacks, frame, locks, resources, prod, log, remote, completions>>

\* 358 / 135
insert_conn ==
    /\ pc = "insert_conn"
    /\ resources' = resources \cup {"StdbConnection"}
    /\ frame' = NoFrame
    /\ pc' = "idle"
    /\ UNCHANGED <<plugin, table_registers, message_senders, channels,
                   callbacks, locks, conn, prod, log, remote, completions>>


(***************************************************************************)
(* The table routers (tables.rs 175-372).  frame.fn is the router running,  *)
(* frame.T its type parameter.                                              *)
(***************************************************************************)
\* the message kind a router registers: the Kind of TypeId::of::<Kind<T::Message>>
KindOf(fn) ==
    CASE fn = "on_insert" -> "Insert"
      [] fn = "on_delete" -> "Delete"
      [] fn = "on_update" -> "Update"
      [] fn = "on_insert_update" -> "InsertUpdate"
      [] fn = "on_insert_without_pk" -> "Insert"
      [] fn = "on_delete_without_pk" -> "Delete"

\* a variant keyed by the registrable type instead of its Message type
type_id_of_table(fn, T) == [kind |-> KindOf(fn), msg |-> T]

\* line 180 (212, 243, 275, 317, 349): the key looked up
type_id(fn, T) == TypeIdOf(KindOf(fn), T)

\* a variant in which every router constructs a channel of InsertMessage
ChannelTypeInsert(fn, T) == TypeIdOf("Insert", T)

\* line 187: the type of the channel the closure constructs
ChannelType(fn, T) == TypeIdOf(KindOf(fn), T)

\* line 191: the type downcast_ref asks for
DowncastType(fn, T) == TypeIdOf(KindOf(fn), T)

\* a variant whose insert-or-update router hooks on_update twice
InstallsUpdateTwice(fn) ==
    CASE fn = "on_insert" -> <<[on |-> "insert", make |-> "Insert"]>>
      [] fn = "on_delete" -> <<[on |-> "delete", make |-> "Delete"]>>
      [] fn = "on_update" -> <<[on |-> "update", make |-> "Update"]>>
      [] fn = "on_insert_update" ->
            <<[on |-> "update", make |-> "InsertUpdateSome"],
              [on |-> "update", make |-> "InsertUpdateSome"]>>
      [] fn = "on_insert_without_pk" -> <<[on |-> "insert", make |-> "Insert"]>>
      [] fn = "on_delete_without_pk" -> <<[on |-> "delete", make |-> "Delete"]>>

\* the callbacks a router installs, in order: the table hook and the message made
Installs(fn) ==
    CASE fn = "on_insert" -> <<[on |-> "insert", make |-> "Insert"]>>
      [] fn = "on_delete" -> <<[on |-> "delete", make |-> "Delete"]>>
      [] fn = "on_update" -> <<[on |-> "update", make |-> "Update"]>>
      [] fn = "on_insert_update" ->
            <<[on |-> "update", make |-> "InsertUpdateSome"],
              [on |-> "insert", make |-> "InsertUpdateNone"]>>
      [] fn = "on_insert_without_pk" -> <<[on |-> "insert", make |-> "Insert"]>>
      [] fn = "on_delete_without_pk" -> <<[on |-> "delete", make |-> "Delete"]>>

\* a variant that constructs a channel on every call (insert, not entry)
VacantAlways(map, key) == TRUE

\* entry(type_id).or_insert_with: the closure runs when the key is vacant
Vacant(map, key) == key \notin DOMAIN map

\* a variant that stores the sender before the receiver is registered
OrInsertWithStoreFirst == <<"on_channel", "on_store", "on_register">>

\* a variant that never registers the receiver
OrInsertWithUnregistered == <<"on_channel", "on_store">>

\* lines 186-190: the steps of the or_insert_with closure, in order
OrInsertWith == <<"on_channel", "on_register", "on_store">>

AfterStep(step) ==
    LET i == CHOOSE j \in 1..Len(OrInsertWith) : OrInsertWith[j] = step
    IN  IF i < Len(OrInsertWith) THEN OrInsertWith[i + 1] ELSE "on_clone"

\* line 182: self.message_senders.lock()
on_lock ==
    /\ pc = "on_lock"
    /\ Lock("message_senders", "on_entry")
    /\ UNCHANGED <<plugin, table_registers, message_senders, channels,
                   callbacks, frame, conn, resources, prod, log, remote, completions>>

\* lines 184-186: map.entry(type_id).or_insert_with(..)
on_entry ==
    /\ pc = "on_entry"
    /\ pc' = IF Vacant(message_senders, type_id(frame.fn, frame.T))
             THEN OrInsertWith[1] ELSE "on_clone"
    /\ UNCHANGED <<plugin, table_registers, message_senders, channels,
                   callbacks, frame, locks, conn, resources, prod, log, remote, completions>>

\* line 187: let (send, recv) = channel::<..>()
on_channel ==
    /\ pc = "on_channel"
    /\ channels' = Append(channels,
                          NewChannel(ChannelType(frame.fn, frame.T), frame.T))
    /\ frame' = [frame EXCEPT !.chan = Len(channels) + 1]
    /\ pc' = AfterStep("on_channel")
    /\ UNCHANGED <<plugin, table_registers, message_senders, callbacks,
                   locks, conn, resources, prod, log, remote, completions>>

\* line 188: app.add_message_channel(recv).  In connect_with_token `app` is
\* a &mut World cast to &mut App (plugin.rs 123): undefined behaviour, which
\* either works on the real app or brings the process down.
on_register ==
    /\ pc = "on_register"
    /\ \/ /\ channels' = add_message_channel(channels, frame.chan)
          /\ pc' = AfterStep("on_register")
       \/ /\ frame.mode = "connect"
          /\ pc' = "aborted"
          /\ UNCHANGED channels
    /\ UNCHANGED <<plugin, table_registers, message_senders, callbacks, frame,
                   locks, conn, resources, prod, log, remote, completions>>

\* lines 189-190: Box::new(send) becomes the entry's value
on_store ==
    /\ pc = "on_store"
    /\ message_senders' =
          [k \in DOMAIN message_senders \cup {type_id(frame.fn, frame.T)} |->
              IF k = type_id(frame.fn, frame.T)
              THEN [chan |-> frame.chan, ty |-> channels[frame.chan].ty]
              ELSE message_senders[k]]
    /\ pc' = AfterStep("on_store")
    /\ UNCHANGED <<plugin, table_registers, channels, callbacks, frame, locks,
                   conn, resources, prod, log, remote, completions>>

\* lines 191-193: downcast_ref::<Sender<..>>().expect("Sender type mismatch").clone()
on_clone ==
    /\ pc = "on_clone"
    /\ LET entry == message_senders[type_id(frame.fn, frame.T)]
       IN  IF entry.ty = DowncastType(frame.fn, frame.T)
           THEN /\ frame' = [frame EXCEPT !.sender = entry.chan]
                /\ pc' = "on_install"
           ELSE /\ pc' = "panicked"
                /\ UNCHANGED frame
    /\ UNCHANGED <<plugin, table_registers, message_senders, channels,
                   callbacks, locks, conn, resources, prod, log, remote, completions>>

\* a variant of the connection that keeps one callback per table, hook and sender
AddCallbacksOnce(installed, new) ==
    installed \o SelectSeq(new, LAMBDA cb :
                              \A i \in 1..Len(installed) : installed[i] # cb)

\* the connection keeps every callback it is given, in order
AddCallbacks(installed, new) == installed \o new

\* lines 195-201 (and 290-306): T::table_accessor(db).on_insert(move |..| ..)
on_install ==
    /\ pc = "on_install"
    /\ callbacks' = AddCallbacks(callbacks,
          [i \in 1..Len(Installs(frame.fn)) |->
              [T |-> frame.T, table |-> TableOf(frame.T),
               on |-> Installs(frame.fn)[i].on,
               make |-> Installs(frame.fn)[i].make,
               sender |-> frame.sender]])
    /\ pc' = "on_return"
    /\ UNCHANGED <<plugin, table_registers, message_senders, channels, frame,
                   locks, conn, resources, prod, log, remote, completions>>

\* line 203-204: the router returns; the MutexGuard `map` is dropped here
on_return ==
    /\ pc = "on_return"
    /\ locks' = locks \ {"message_senders"}
    /\ frame' = [frame EXCEPT !.fn = "none", !.chan = 0, !.sender = 0]
    /\ pc' = "closure"
    /\ UNCHANGED <<plugin, table_registers, message_senders, channels,
                   callbacks, conn, resources, prod, log, remote, completions>>

Setup ==
    \/ build_expect
    \/ build_channels
    \/ build_delayed
    \/ build_conn
    \/ connect_config
    \/ connect_data
    \/ connect_conn
    \/ table_lock
    \/ table_loop
    \/ closure
    \/ on_lock
    \/ on_entry
    \/ on_channel
    \/ on_register
    \/ on_store
    \/ on_clone
    \/ on_install
    \/ on_return
    \/ reducer_lock
    \/ reducer_loop
    \/ run
    \/ insert_conn

(***************************************************************************)
(* Reducers and procedures.  add_reducer and add_procedure (reducers.rs,    *)
(* procedures.rs) push a register closure; the closure of a reducer makes   *)
(* the channel of its result message, registers the receiver and hands the  *)
(* sender to set_stdb_callback (macros lib.rs 70-80).                       *)
(***************************************************************************)
ResultTypeId(kind, R) == [kind |-> kind, msg |-> R]

\* each reducer is registered at most once
add_reducer(R) ==
    /\ pc = "config"
    /\ \A i \in 1..Len(reducer_registers) : reducer_registers[i] # R
    /\ reducer_registers' = Append(reducer_registers, R)
    /\ UNCHANGED <<plugin, table_registers, message_senders, channels,
                   callbacks, pc, frame, locks, conn, resources, prod, log,
                   remote, procedure_registers, reducer_callbacks,
                   procedure_callbacks>>

\* each procedure is registered at most once
add_procedure(P) ==
    /\ pc = "config"
    /\ \A i \in 1..Len(procedure_registers) : procedure_registers[i] # P
    /\ procedure_registers' = Append(procedure_registers, P)
    /\ UNCHANGED <<plugin, table_registers, message_senders, channels,
                   callbacks, pc, frame, locks, conn, resources, prod, log,
                   remote, reducer_registers, reducer_callbacks,
                   procedure_callbacks>>

\* channel::<ReducerResultMessage<R>>()
reducer_channel ==
    /\ pc = "reducer_channel"
    /\ channels' = Append(channels,
                          NewChannel(ResultTypeId("ReducerResult", frame.T), frame.T))
    /\ frame' = [frame EXCEPT !.chan = Len(channels) + 1]
    /\ pc' = "reducer_register"
    /\ UNCHANGED <<plugin, table_registers, message_senders, callbacks,
                   locks, conn, resources, prod, log, remote, completions>>

\* app.add_message_channel(recv); in connect_with_token `app` is the cast
\* World of plugin.rs 130
reducer_register ==
    /\ pc = "reducer_register"
    /\ \/ /\ channels' = add_message_channel(channels, frame.chan)
          /\ pc' = "reducer_callback"
       \/ /\ frame.mode = "connect"
          /\ pc' = "aborted"
          /\ UNCHANGED channels
    /\ UNCHANGED <<plugin, table_registers, message_senders, callbacks, frame,
                   locks, conn, resources, prod, log, remote, completions>>

\* R::set_stdb_callback(reducers, send): macros lib.rs 70-80
reducer_callback ==
    /\ pc = "reducer_callback"
    /\ reducer_callbacks' = Append(reducer_callbacks,
                                   [R |-> frame.T, sender |-> frame.chan])
    /\ frame' = [frame EXCEPT !.reg = @ + 1, !.T = "none", !.chan = 0]
    /\ pc' = "reducer_loop"
    /\ UNCHANGED <<plugin, table_registers, message_senders, channels,
                   callbacks, locks, conn, resources, prod, log, remote,
                   reducer_registers, procedure_registers, procedure_callbacks>>

SetupReducers ==
    \/ reducer_channel
    \/ reducer_register
    \/ reducer_callback


(***************************************************************************)
(* The installed callbacks (tables.rs 195-201, 226-232, 257-264, 290-306,   *)
(* 332-338, 363-369).  An event of the remote system is [on, table, args,   *)
(* event]: args is <<row>> for insert and delete, <<old, new>> for update;  *)
(* event is the causal context, here the producer and its event number.     *)
(***************************************************************************)
\* macros/src/lib.rs 125-127: ctx.event.clone()
context_event_accessor(ctx) == ctx.event

\* a variant whose insert-or-update message swaps the old and the new row
MakeMessageSwapped(make, ctx, args) ==
    CASE make = "Insert" ->
            [kind |-> "Insert", event |-> context_event_accessor(ctx),
             row |-> args[1]]
      [] make = "Delete" ->
            [kind |-> "Delete", event |-> context_event_accessor(ctx),
             row |-> args[1]]
      [] make = "Update" ->
            [kind |-> "Update", event |-> context_event_accessor(ctx),
             old |-> args[1], new |-> args[2]]
      [] make = "InsertUpdateSome" ->
            [kind |-> "InsertUpdate", event |-> context_event_accessor(ctx),
             old |-> Some(args[2]), new |-> args[1]]
      [] make = "InsertUpdateNone" ->
            [kind |-> "InsertUpdate", event |-> context_event_accessor(ctx),
             old |-> None, new |-> args[1]]

\* the message each callback body constructs
MakeMessage(make, ctx, args) ==
    CASE make = "Insert" ->
            [kind |-> "Insert", event |-> context_event_accessor(ctx),
             row |-> args[1]]
      [] make = "Delete" ->
            [kind |-> "Delete", event |-> context_event_accessor(ctx),
             row |-> args[1]]
      [] make = "Update" ->
            [kind |-> "Update", event |-> context_event_accessor(ctx),
             old |-> args[1], new |-> args[2]]
      [] make = "InsertUpdateSome" ->
            [kind |-> "InsertUpdate", event |-> context_event_accessor(ctx),
             old |-> Some(args[1]), new |-> args[2]]
      [] make = "InsertUpdateNone" ->
            [kind |-> "InsertUpdate", event |-> context_event_accessor(ctx),
             old |-> None, new |-> args[1]]

\* a variant that unwraps the result of send
TableCallbackUnwraps(result) == result = "Err"

\* `let _ = sender.send(message);`: the result is discarded
TableCallbackPanics(result) == FALSE

Halted == pc \in {"panicked", "aborted", "deadlocked"}

\* the arguments the remote system passes to the hooks of a table
EventArgs(on) ==
    IF on = "update"
    THEN {<<old, new>> : old \in Rows, new \in Rows} \ {<<r, r>> : r \in Rows}
    ELSE {<<row>> : row \in Rows}

\* a producer thread takes the next event of the running connection and
\* collects the callbacks installed for it
RemoteEvent(p, on, table, args) ==
    /\ conn = "running"
    /\ ~Halted
    /\ prod[p].panicked = "no"
    /\ prod[p].pending = {}
    /\ prod[p].n < remote.budget[p]
    /\ LET ev == [on |-> on, table |-> table, args |-> args,
                  event |-> <<p, prod[p].n + 1>>]
           hooks == {i \in 1..Len(callbacks) :
                        callbacks[i].table = table /\ callbacks[i].on = on}
       IN  /\ prod' = [prod EXCEPT ![p].n = @ + 1, ![p].pending = hooks,
                                   ![p].ev = IF hooks = {} THEN NoEvent ELSE ev]
           /\ log' = [log EXCEPT !.events = @ \cup {ev}]
    /\ UNCHANGED <<plugin, table_registers, message_senders, channels,
                   callbacks, pc, frame, locks, conn, resources, remote, completions>>

\* a variant with a rendezvous-like channel: sync_channel(1)
BlocksWhenFull(chs, c) == chs[c].alive /\ Len(chs[c].queue) >= 1

\* tables.rs 187, plugin.rs 276-278: channel() is unbounded, send never waits
Blocks(chs, c) == FALSE

\* the hooks of a table
TableHooks == {"insert", "delete", "update"}

\* the producer thread runs one of the callbacks of its event
FireCallback(p, i) ==
    /\ ~Halted
    /\ prod[p].ev.on \in TableHooks
    /\ i \in prod[p].pending
    /\ ~Blocks(channels, callbacks[i].sender)
    /\ LET cb == callbacks[i]
           message == MakeMessage(cb.make, prod[p].ev, prod[p].ev.args)
           result == SendResult(channels, cb.sender)
           sent == Send(channels, cb.sender, message)
       IN  /\ channels' = IF result = "Ok"
                          THEN [sent EXCEPT ![cb.sender].sent = Append(@, message)]
                          ELSE sent
           /\ log' = IF result = "Err" THEN [log EXCEPT !.sendErrs = @ + 1]
                     ELSE log
           /\ prod' = IF TableCallbackPanics(result)
                      THEN [prod EXCEPT ![p].panicked = "table", ![p].pending = {},
                                        ![p].ev = NoEvent]
                      ELSE [prod EXCEPT ![p].pending = @ \ {i},
                                        ![p].ev = IF prod[p].pending = {i}
                                                  THEN NoEvent ELSE @]
    /\ UNCHANGED <<plugin, table_registers, message_senders, callbacks, pc,
                   frame, locks, conn, resources, remote, completions>>

(***************************************************************************)
(* The host: one tick drains every registered receiver.                     *)
(***************************************************************************)
Tick ==
    /\ pc = "idle"
    /\ channels' = [c \in 1..Len(channels) |-> Drain(channels[c])]
    /\ UNCHANGED <<plugin, table_registers, message_senders, callbacks, pc,
                   frame, locks, conn, resources, prod, log, remote, completions>>

\* the app ends and its World is dropped, and every receiver with it; the
\* leaked connection and its threads live on
TearDown ==
    /\ pc = "idle"
    /\ channels' = [c \in 1..Len(channels) |->
                       [channels[c] EXCEPT !.alive = FALSE, !.queue = <<>>]]
    /\ pc' = "exited"
    /\ UNCHANGED <<plugin, table_registers, message_senders, callbacks,
                   frame, locks, conn, resources, prod, log, remote, completions>>

(***************************************************************************)
(* The connection callbacks (plugin.rs 316-333 and 81-98) and the reducer   *)
(* callback (macros lib.rs 71-78).  The senders of the lifecycle channels   *)
(* are the channels build made first, in the order of lines 276-278.  The   *)
(* field `event` of a lifecycle message is not part of the payload: it      *)
(* names the firing the message came from, for the properties.              *)
(***************************************************************************)
send_connected == 1

send_disconnected == 2

send_connect_error == 3

LifecycleHooks == {"connect", "disconnect", "connect_error"}

Identities == {"id1", "id2"}

Tokens == {"tok"}

Errors == {"err"}

\* the arguments the connection passes to its callbacks
LifecycleArgs(on) ==
    CASE on = "connect" -> {<<id, tok>> : id \in Identities, tok \in Tokens}
      [] on = "disconnect" -> {<<None>>} \cup {<<Some(e)>> : e \in Errors}
      [] on = "connect_error" -> {<<e>> : e \in Errors}

\* a variant that crosses the senders of the two error callbacks
LifecycleSenderCrossed(on) ==
    CASE on = "connect" -> send_connected
      [] on = "disconnect" -> send_connect_error
      [] on = "connect_error" -> send_disconnected

\* the sender each callback moved into its closure
LifecycleSender(on) ==
    CASE on = "connect" -> send_connected
      [] on = "disconnect" -> send_disconnected
      [] on = "connect_error" -> send_connect_error

\* the message each connection callback constructs
MakeLifecycleMessage(on, ctx, args) ==
    CASE on = "connect" ->
            [kind |-> "Connected", event |-> ctx.event,
             identity |-> args[1], access_token |-> args[2]]
      [] on = "disconnect" ->
            [kind |-> "Disconnected", event |-> ctx.event, err |-> args[1]]
      [] on = "connect_error" ->
            [kind |-> "ConnectionError", event |-> ctx.event, err |-> args[1]]

\* `.send(..).unwrap()`: plugin.rs 317-319, 322-324, 327-332
LifecycleCallbackPanics(result) == result = "Err"

\* `.send(..).unwrap()`: macros lib.rs 72-77
ReducerCallbackPanics(result) == result = "Err"

\* the arguments of a reducer or procedure invocation
InvocationArgs == {<<"x">>, <<"y">>}

\* a variant whose payload leaves the causal event out
MakeReducerMessageBare(R, ctx, args) ==
    [kind |-> "ReducerResult", event |-> ctx.event,
     result |-> [reducer |-> R, event |-> <<>>, args |-> args]]

\* ReducerResultMessage::new(R { event: ctx.event.clone(), params.. })
MakeReducerMessage(R, ctx, args) ==
    [kind |-> "ReducerResult", event |-> ctx.event,
     result |-> [reducer |-> R, event |-> ctx.event, args |-> args]]

\* a producer thread takes the next event and collects its callbacks
Dispatch(p, on, table, args, hooks) ==
    /\ conn = "running"
    /\ ~Halted
    /\ prod[p].panicked = "no"
    /\ prod[p].pending = {}
    /\ prod[p].n < remote.budget[p]
    /\ LET ev == [on |-> on, table |-> table, args |-> args,
                  event |-> <<p, prod[p].n + 1>>]
       IN  /\ prod' = [prod EXCEPT ![p].n = @ + 1, ![p].pending = hooks,
                                   ![p].ev = IF hooks = {} THEN NoEvent ELSE ev]
           /\ log' = [log EXCEPT !.events = @ \cup {ev}]
    /\ UNCHANGED <<plugin, table_registers, message_senders, channels,
                   callbacks, pc, frame, locks, conn, resources, remote,
                   completions>>

\* the connection connects, disconnects or fails: its one callback is due
LifecycleEvent(p, on, args) == Dispatch(p, on, "connection", args, {0})

\* an invocation of a reducer completes
ReducerEvent(p, R, args) ==
    Dispatch(p, "reducer", R, args,
             {i \in 1..Len(reducer_callbacks) : reducer_callbacks[i].R = R})

\* an invocation of a procedure completes
ProcedureEvent(p, P, args) ==
    Dispatch(p, "procedure", P, args,
             {i \in 1..Len(procedure_callbacks) : procedure_callbacks[i].P = P})

\* what a callback that unwraps the result of send leaves of its thread
AfterSend(p, i, result, panics, how) ==
    /\ log' = IF result = "Err" THEN [log EXCEPT !.sendErrs = @ + 1] ELSE log
    /\ prod' = IF panics
               THEN [prod EXCEPT ![p].panicked = how, ![p].pending = {},
                                 ![p].ev = NoEvent]
               ELSE [prod EXCEPT ![p].pending = @ \ {i},
                                 ![p].ev = IF prod[p].pending = {i}
                                           THEN NoEvent ELSE @]

\* the producer thread runs the connection callback of its event
FireLifecycle(p) ==
    /\ ~Halted
    /\ prod[p].ev.on \in LifecycleHooks
    /\ 0 \in prod[p].pending
    /\ ~Blocks(channels, LifecycleSender(prod[p].ev.on))
    /\ LET sender == LifecycleSender(prod[p].ev.on)
           message == MakeLifecycleMessage(prod[p].ev.on, prod[p].ev, prod[p].ev.args)
           result == SendResult(channels, sender)
           sent == Send(channels, sender, message)
       IN  /\ channels' = IF result = "Ok"
                          THEN [sent EXCEPT ![sender].sent = Append(@, message)]
                          ELSE sent
           /\ AfterSend(p, 0, result, LifecycleCallbackPanics(result), "lifecycle")
    /\ UNCHANGED <<plugin, table_registers, message_senders, callbacks, pc,
                   frame, locks, conn, resources, remote, completions>>

\* the producer thread runs a completion callback of its reducer event
FireReducer(p, i) ==
    /\ ~Halted
    /\ prod[p].ev.on = "reducer"
    /\ i \in prod[p].pending
    /\ ~Blocks(channels, reducer_callbacks[i].sender)
    /\ LET sender == reducer_callbacks[i].sender
           message == MakeReducerMessage(reducer_callbacks[i].R, prod[p].ev,
                                         prod[p].ev.args)
           result == SendResult(channels, sender)
           sent == Send(channels, sender, message)
       IN  /\ channels' = IF result = "Ok"
                          THEN [sent EXCEPT ![sender].sent = Append(@, message)]
                          ELSE sent
           /\ AfterSend(p, i, result, ReducerCallbackPanics(result), "reducer")
    /\ UNCHANGED <<plugin, table_registers, message_senders, callbacks, pc,
                   frame, locks, conn, resources, remote, completions>>

RunningConnection ==
    \/ \E p \in Producers, on \in LifecycleHooks :
          \E args \in LifecycleArgs(on) : LifecycleEvent(p, on, args)
    \/ \E p \in Producers : FireLifecycle(p)
    \/ \E p \in Producers, R \in remote.reducers :
          \E args \in InvocationArgs : ReducerEvent(p, R, args)
    \/ \E p \in Producers : \E i \in prod[p].pending : FireReducer(p, i)
    \/ \E p \in Producers, P \in remote.procedures :
          \E args \in InvocationArgs : ProcedureEvent(p, P, args)

Running ==
    \/ \E p \in Producers, table \in remote.tables :
          \/ \E args \in EventArgs("insert") : RemoteEvent(p, "insert", table, args)
          \/ \E args \in EventArgs("delete") : RemoteEvent(p, "delete", table, args)
          \/ /\ table \in PkTables
             /\ \E args \in EventArgs("update") : RemoteEvent(p, "update", table, args)
    \/ \E p \in Producers : \E i \in prod[p].pending : FireCallback(p, i)
    \/ Tick
    \/ TearDown

Next == Builder \/ Setup \/ Running

Spec == Init /\ [][Next]_vars

NextThreads == BuilderSingle \/ Setup \/ Running

SpecThreads == InitThreads /\ [][NextThreads]_vars

\* an application that also registers the reducers and procedures of its
\* module and listens to the connection
BuilderModule ==
    \/ BuilderSingle
    \/ \E R \in remote.reducers : add_reducer(R)
    \/ \E P \in remote.procedures : add_procedure(P)

NextConnection ==
    BuilderModule \/ Setup \/ SetupReducers \/ Running \/ RunningConnection

SpecConnection == InitConnection /\ [][NextConnection]_vars

\* the steps of one producer thread: the callbacks of its event
ProducerStep(p) ==
    \/ \E i \in prod[p].pending : FireCallback(p, i)
    \/ FireLifecycle(p)
    \/ \E i \in prod[p].pending : FireReducer(p, i)

\* the threads of the connection are scheduled whatever the host does; no
\* fairness is assumed of the host's ticks
SpecProducers ==
    /\ InitConnection
    /\ [][NextConnection]_vars
    /\ \A p \in Producers : WF_vars(ProducerStep(p))

\* Configuration and setup alone, with two reducers of the module, so that
\* the order of the stored registrations shows
Reducers == {"SetName", "SetAge"}

InitSetup == StartModule([p \in Producers |-> 0], {"orders"}, Reducers, {})

BuilderReducers == \E R \in remote.reducers : add_reducer(R)

NextSetup == Builder \/ BuilderReducers \/ Setup \/ SetupReducers

SpecSetup == InitSetup /\ [][NextSetup]_vars

\* A module with two tables, each registered with all its messages
InitTables ==
    Start([p \in Producers |-> IF p = "p1" THEN MaxEvents ELSE 0],
          {"orders", "logs"})

BuilderTables ==
    \/ with_uri
    \/ with_module_name
    \/ with_run_fn
    \/ \E delayed \in BOOLEAN : with_delayed_connect(delayed)
    \/ \E T \in {U \in Registrable : HasPk(U)} : add_table(T)
    \/ \E T \in {U \in Registrable : ~HasPk(U)} : add_table_without_pk(T)

NextTables == BuilderTables \/ Setup \/ Running

SpecTables == InitTables /\ [][NextTables]_vars

(***************************************************************************)
(* Vocabulary of the properties.                                            *)
(***************************************************************************)
Channels == 1..Len(channels)

\* the channels the table routers constructed
RouterChannels == {c \in Channels : channels[c].by \in RegTypes}

Keys == DOMAIN message_senders

TypeIds == {TypeIdOf(kind, T) : kind \in Kinds, T \in RegTypes}

Callbacks == 1..Len(callbacks)

\* the kind of message a callback body makes
MessageKind(make) ==
    IF make \in {"InsertUpdateSome", "InsertUpdateNone"} THEN "InsertUpdate"
    ELSE make

\* the message type a callback sends
CallbackKey(cb) == TypeIdOf(MessageKind(cb.make), cb.T)

\* every sender somebody holds: the registry, a router's local, a callback
SendersHeld ==
    {message_senders[k].chan : k \in Keys}
    \cup {callbacks[i].sender : i \in Callbacks}
    \cup (IF frame.sender = 0 THEN {} ELSE {frame.sender})

\* the registration loop of build or connect_with_token has run to its end
SetupDone == conn # "none" /\ pc \in {"run", "insert_conn", "idle", "exited"}

\* the event was dispatched and every callback collected for it has run
Completed(ev) == ev \in log.events /\ \A p \in Producers : prod[p].ev # ev

\* the messages of one event among those a channel accepted
MessagesOf(c, ev) ==
    SelectSeq(channels[c].sent, LAMBDA m : m.event = ev.event)

(***************************************************************************)
(* C1.  However many get-or-create calls name one message type (the same    *)
(* table registered several times, or a primary-key and a no-primary-key    *)
(* registration of one Message type), one channel is constructed for that   *)
(* type, and every caller's sender is the sender of that one channel.       *)
(***************************************************************************)
C1_SingleChannelPerType ==
    /\ \A k \in TypeIds :
          Cardinality({c \in RouterChannels : channels[c].ty = k}) <= 1
    /\ \A k \in Keys :
          /\ Cardinality({c \in RouterChannels : channels[c].ty = k}) = 1
          /\ channels[message_senders[k].chan].ty = k
    /\ \A i \in Callbacks :
          /\ CallbackKey(callbacks[i]) \in Keys
          /\ callbacks[i].sender = message_senders[CallbackKey(callbacks[i])].chan
    /\ frame.sender # 0 =>
          /\ TypeIdOf(KindOf(frame.fn), frame.T) \in Keys
          /\ frame.sender = message_senders[TypeIdOf(KindOf(frame.fn), frame.T)].chan

\* a primary-key and a no-primary-key registration obtained the same sender
C1_Witness ==
    /\ pc = "idle"
    /\ \E i, j \in Callbacks :
          /\ HasPk(callbacks[i].T) /\ ~HasPk(callbacks[j].T)
          /\ callbacks[i].make = "Insert" /\ callbacks[j].make = "Insert"
          /\ callbacks[i].sender = callbacks[j].sender

(***************************************************************************)
(* C2.  Get-or-create on a present key constructs nothing and registers no  *)
(* receiver; on a vacant key it runs the closure once.  So, whenever no     *)
(* get-or-create is inside its critical section, the table routers have     *)
(* constructed, and registered with the host, as many channels as the       *)
(* registry has keys.                                                       *)
(***************************************************************************)
C2_ReceiversMatchKeys ==
    "message_senders" \notin locks =>
       /\ Cardinality(RouterChannels) = Cardinality(Keys)
       /\ Cardinality({c \in RouterChannels : channels[c].registered})
             = Cardinality(Keys)

\* the same router ran twice for one type: the second call found the key
C2_Witness ==
    /\ "message_senders" \notin locks
    /\ Cardinality(Keys) >= 2
    /\ \E i, j \in Callbacks : i # j /\ callbacks[i] = callbacks[j]

(***************************************************************************)
(* C3.  The receiver of a new channel is registered with the host before    *)
(* its sender is stored or returned: nobody ever holds a sender whose       *)
(* receiver the host does not know.                                         *)
(***************************************************************************)
C3_RegisteredBeforeHeld == \A c \in SendersHeld : channels[c].registered

\* inside the closure: the receiver is registered, the sender not yet stored
C3_Witness ==
    /\ pc = "on_store"
    /\ channels[frame.chan].registered
    /\ frame.chan \notin SendersHeld

(***************************************************************************)
(* C4.  A message a live channel accepted is never lost: from the send on   *)
(* it waits in the queue of a receiver the host knows, and the next tick    *)
(* delivers it, so that after a tick everything accepted so far has been    *)
(* delivered.                                                               *)
(***************************************************************************)
C4_NoLostSend ==
    [][/\ \A c \in SendersHeld' :
             channels'[c].alive =>
                /\ channels'[c].registered
                /\ channels'[c].sent
                      = channels'[c].delivered \o channels'[c].queue
       /\ Tick => \A c \in SendersHeld :
                     channels[c].alive
                        => channels'[c].delivered = channels[c].sent]_vars

\* a message sent by a callback was delivered by a tick
C4_Witness ==
    \E i \in Callbacks :
       /\ channels[callbacks[i].sender].alive
       /\ channels[callbacks[i].sender].delivered # <<>>
       /\ channels[callbacks[i].sender].delivered = channels[callbacks[i].sender].sent

(***************************************************************************)
(* C5.  What the drains of a channel deliver keeps, for each producer       *)
(* thread, the order of its sends, whatever another thread sends between.   *)
(***************************************************************************)
C5_OrderPreserved ==
    \A c \in Channels :
       \A i, j \in 1..Len(channels[c].delivered) :
          (/\ i < j
           /\ channels[c].delivered[i].event[1] = channels[c].delivered[j].event[1])
          => channels[c].delivered[i].event[2] <= channels[c].delivered[j].event[2]

\* two events of one thread delivered in order, one of the other thread between
C5_Witness ==
    \E c \in Channels :
       \E i, j, k \in 1..Len(channels[c].delivered) :
          /\ i < j /\ j < k
          /\ channels[c].delivered[i].event = <<"p1", 1>>
          /\ channels[c].delivered[j].event[1] = "p2"
          /\ channels[c].delivered[k].event = <<"p1", 2>>

(***************************************************************************)
(* Registrations and what they ask for.                                     *)
(***************************************************************************)
Registers == 1..Len(table_registers)

PkRegisters == {i \in Registers : table_registers[i].pk}

\* the registration asks for messages of this kind
Requested(r, kind) ==
    CASE kind = "Insert" -> r.messages.insert
      [] kind = "Delete" -> r.messages.delete
      [] kind = "Update" -> r.pk /\ r.messages.update
      [] kind = "InsertUpdate" ->
            r.pk /\ r.messages.update /\ r.messages.insert

\* the channel the registry holds for a kind of message of a type
ChannelOf(kind, T) == message_senders[TypeIdOf(kind, T)].chan

UpdateMessage(ev) ==
    [kind |-> "Update", event |-> ev.event,
     old |-> ev.args[1], new |-> ev.args[2]]

InsertMessage(ev) ==
    [kind |-> "Insert", event |-> ev.event, row |-> ev.args[1]]

InsertUpdateMessage(ev, old, new) ==
    [kind |-> "InsertUpdate", event |-> ev.event, old |-> old, new |-> new]

\* the host is alive and the registration loop has run
Live == SetupDone /\ pc # "exited"

(***************************************************************************)
(* C6.  With one primary-key registration that asks for insert and update,  *)
(* three distinct live channels exist (Insert, Update, InsertUpdate), and   *)
(* one remote update of a row yields exactly one UpdateMessage {old, new}   *)
(* and exactly one InsertUpdateMessage {Some(old), new}, and no             *)
(* InsertMessage.                                                           *)
(***************************************************************************)
C6_UpdateFansOut ==
    (/\ Live
     /\ Cardinality(PkRegisters) = 1
     /\ \A i \in PkRegisters :
           table_registers[i].messages.insert /\ table_registers[i].messages.update)
    => LET T == table_registers[CHOOSE i \in PkRegisters : TRUE].T
           fan == {"Insert", "Update", "InsertUpdate"}
       IN  /\ \A kind \in fan : TypeIdOf(kind, T) \in Keys
           /\ Cardinality({ChannelOf(kind, T) : kind \in fan}) = 3
           /\ \A kind \in fan :
                 /\ channels[ChannelOf(kind, T)].registered
                 /\ channels[ChannelOf(kind, T)].alive
           /\ \A ev \in log.events :
                 (ev.on = "update" /\ ev.table = TableOf(T) /\ Completed(ev))
                 => /\ MessagesOf(ChannelOf("Update", T), ev)
                          = <<UpdateMessage(ev)>>
                    /\ MessagesOf(ChannelOf("InsertUpdate", T), ev)
                          = <<InsertUpdateMessage(ev, Some(ev.args[1]), ev.args[2])>>
                    /\ MessagesOf(ChannelOf("Insert", T), ev) = <<>>

\* an update of A to B went through both callbacks and a tick delivered it
C6_Witness ==
    /\ pc = "idle"
    /\ conn = "running"
    /\ Cardinality(PkRegisters) = 1
    /\ \A i \in PkRegisters :
          table_registers[i].messages.insert /\ table_registers[i].messages.update
    /\ \E ev \in log.events :
          /\ ev.on = "update" /\ ev.args = <<"A", "B">> /\ Completed(ev)
          /\ \E c \in Channels :
                \E n \in 1..Len(channels[c].delivered) :
                   channels[c].delivered[n]
                      = InsertUpdateMessage(ev, Some("A"), "B")

(***************************************************************************)
(* C7.  With one registration that asks for every kind, one remote insert   *)
(* of a row yields exactly one InsertMessage {row} and exactly one          *)
(* InsertUpdateMessage {None, row}, and nothing on any other channel.       *)
(***************************************************************************)
C7_InsertFansOut ==
    (/\ Live
     /\ table_registers
           = <<[T |-> "Orders", pk |-> TRUE, messages |-> TableMessages_all]>>)
    => \A ev \in log.events :
          (ev.on = "insert" /\ ev.table = TableOf("Orders") /\ Completed(ev))
          => /\ MessagesOf(ChannelOf("Insert", "Orders"), ev)
                   = <<InsertMessage(ev)>>
             /\ MessagesOf(ChannelOf("InsertUpdate", "Orders"), ev)
                   = <<InsertUpdateMessage(ev, None, ev.args[1])>>
             /\ \A c \in Channels \ {ChannelOf("Insert", "Orders"),
                                     ChannelOf("InsertUpdate", "Orders")} :
                   MessagesOf(c, ev) = <<>>

\* an insert of A went through both callbacks and a tick delivered it
C7_Witness ==
    /\ pc = "idle"
    /\ conn = "running"
    /\ table_registers
          = <<[T |-> "Orders", pk |-> TRUE, messages |-> TableMessages_all]>>
    /\ \E ev \in log.events :
          /\ ev.on = "insert" /\ ev.args = <<"A">> /\ Completed(ev)
          /\ \E c \in Channels :
                \E n \in 1..Len(channels[c].delivered) :
                   channels[c].delivered[n] = InsertUpdateMessage(ev, None, "A")

(***************************************************************************)
(* C8.  After setup a kind's channel exists if and only if a registration   *)
(* asked for that kind, and each registration installed the callbacks of    *)
(* exactly the kinds it asked for: insert, delete and update by their flag, *)
(* insert-or-update when both insert and update are set, in addition to     *)
(* the plain insert and update.  Where no registration of a table asked     *)
(* for update, a remote update of that table produces no message.           *)
(***************************************************************************)
C8_KindsAsRequested ==
    SetupDone =>
       /\ \A kind \in Kinds, T \in RegTypes :
             TypeIdOf(kind, T) \in Keys
             <=> \E i \in Registers :
                    /\ MessageOf(table_registers[i].T) = MessageOf(T)
                    /\ Requested(table_registers[i], kind)
       /\ \A kind \in Kinds, T \in RegTypes :
             Cardinality({i \in Callbacks :
                             /\ callbacks[i].T = T
                             /\ MessageKind(callbacks[i].make) = kind})
             = Cardinality({i \in Registers :
                               /\ table_registers[i].T = T
                               /\ Requested(table_registers[i], kind)})
               * (IF kind = "InsertUpdate" THEN 2 ELSE 1)
       /\ \A ev \in log.events :
             (/\ ev.on = "update"
              /\ \A i \in Registers :
                    TableOf(table_registers[i].T) = ev.table
                    => ~Requested(table_registers[i], "Update"))
             => \A c \in Channels : MessagesOf(c, ev) = <<>>

\* registered with no_update(): two channels, and a remote update went by
C8_Witness ==
    /\ pc = "idle"
    /\ conn = "running"
    /\ table_registers
          = <<[T |-> "Orders", pk |-> TRUE, messages |-> TableMessages_no_update]>>
    /\ Keys = {TypeIdOf("Insert", "Orders"), TypeIdOf("Delete", "Orders")}
    /\ Len(callbacks) = 2
    /\ \E ev \in log.events : ev.on = "update" /\ Completed(ev)

(***************************************************************************)
(* C9.  A registration without primary key installs insert and delete       *)
(* callbacks only and constructs Insert and Delete channels only; an        *)
(* Update or InsertUpdate channel of a message type exists only if a        *)
(* primary-key registration of that type was made.                          *)
(***************************************************************************)
C9_NoPkInsertDeleteOnly ==
    /\ \A i \in Callbacks :
          ~HasPk(callbacks[i].T)
          => /\ callbacks[i].on \in {"insert", "delete"}
             /\ callbacks[i].make \in {"Insert", "Delete"}
    /\ \A c \in RouterChannels :
          ~HasPk(channels[c].by) => channels[c].ty.kind \in {"Insert", "Delete"}
    /\ \A k \in Keys :
          k.kind \in {"Update", "InsertUpdate"}
          => \E i \in PkRegisters : MessageOf(table_registers[i].T) = k.msg

\* a table registered without primary key, all kinds: two channels, two hooks
C9_Witness ==
    /\ pc = "idle"
    /\ conn = "running"
    /\ table_registers
          = <<[T |-> "OrdersNoPk", pk |-> FALSE,
               messages |-> TableMessagesWithoutPrimaryKey_all]>>
    /\ Keys = {TypeIdOf("Insert", "OrdersNoPk"), TypeIdOf("Delete", "OrdersNoPk")}
    /\ {callbacks[i].on : i \in Callbacks} = {"insert", "delete"}
    /\ \E ev \in log.events : ev.on = "update" /\ Completed(ev)

(***************************************************************************)
(* C10.  A table callback that fires after the receiver of its channel was  *)
(* torn down returns normally: the producer thread does not panic, and the  *)
(* message of that send is neither queued nor delivered afterwards.         *)
(***************************************************************************)
C10_SendOnDeadReceiver ==
    [][/\ \A p \in Producers : prod'[p].panicked # "table"
       /\ \A c \in Channels :
             ~channels[c].alive
             => /\ channels'[c].delivered = channels[c].delivered
                /\ channels'[c].sent = channels[c].sent
                /\ channels'[c].queue = <<>>]_vars

\* a callback sent to a torn-down receiver and its thread went on
C10_Witness ==
    /\ pc = "exited"
    /\ log.sendErrs >= 1
    /\ \E p \in Producers :
          /\ prod[p].n = MaxEvents
          /\ prod[p].pending = {}
          /\ prod[p].panicked = "no"

(***************************************************************************)
(* C11.  A reducer completion callback that fires after the receiver of     *)
(* its result channel was torn down returns normally: no producer thread    *)
(* is ever brought down by a reducer callback.                              *)
(***************************************************************************)
C11_ReducerSendNonFatal == \A p \in Producers : prod[p].panicked # "reducer"

(***************************************************************************)
(* C12.  A connection callback (on_connect, on_disconnect,                  *)
(* on_connect_error) that fires after the receiver of its channel is gone   *)
(* returns normally: no producer thread is ever brought down by a           *)
(* connection callback, in immediate or in delayed mode.                    *)
(***************************************************************************)
C12_LifecycleSendNonFatal == \A p \in Producers : prod[p].panicked # "lifecycle"

\* the lifecycle channel of a kind of message
LifecycleChannel(kind) ==
    CHOOSE c \in Channels : channels[c].by = "build" /\ channels[c].ty.kind = kind

\* the message a firing of a connection callback is to be forwarded as
Forwarded(ev) ==
    CASE ev.on = "connect" ->
            [kind |-> "Connected", event |-> ev.event,
             identity |-> ev.args[1], access_token |-> ev.args[2]]
      [] ev.on = "disconnect" ->
            [kind |-> "Disconnected", event |-> ev.event, err |-> ev.args[1]]
      [] ev.on = "connect_error" ->
            [kind |-> "ConnectionError", event |-> ev.event, err |-> ev.args[1]]

(***************************************************************************)
(* C13.  Each firing of on_connect, on_disconnect or on_connect_error       *)
(* sends exactly one StdbConnectedMessage (identity, access token),         *)
(* StdbDisconnectedMessage (optional error) or StdbConnectionErrorMessage   *)
(* (error) on the channel of that kind, and nothing on any other channel.   *)
(***************************************************************************)
C13_LifecycleForwarded ==
    Live =>
       \A ev \in log.events :
          (ev.on \in LifecycleHooks /\ Completed(ev))
          => /\ MessagesOf(LifecycleChannel(Forwarded(ev).kind), ev)
                   = <<Forwarded(ev)>>
             /\ \A c \in Channels \ {LifecycleChannel(Forwarded(ev).kind)} :
                   MessagesOf(c, ev) = <<>>

\* a disconnect with an error was forwarded and a tick delivered it
C13_Witness ==
    /\ pc = "idle"
    /\ \E ev \in log.events :
          /\ ev.on = "disconnect" /\ ev.args = <<Some("err")>> /\ Completed(ev)
          /\ \E c \in Channels :
                /\ channels[c].ty.kind = "Disconnected"
                /\ \E n \in 1..Len(channels[c].delivered) :
                      channels[c].delivered[n] = Forwarded(ev)

\* the kinds of message a hook of a table feeds
KindsOn(on) ==
    CASE on = "insert" -> {"Insert", "InsertUpdate"}
      [] on = "delete" -> {"Delete"}
      [] on = "update" -> {"Update", "InsertUpdate"}

\* the registrations of a table that ask for a kind of a message type
RegistrationsOf(table, msg, kind) ==
    {i \in Registers :
        /\ TableOf(table_registers[i].T) = table
        /\ MessageOf(table_registers[i].T) = msg
        /\ Requested(table_registers[i], kind)}

(***************************************************************************)
(* C14.  k registrations of a table that ask for the same kind share one    *)
(* channel of that message type and install k callbacks: each remote event  *)
(* of the kind yields exactly k messages on that single channel (add_table  *)
(* twice: one insert yields two InsertMessage and two InsertUpdateMessage). *)
(***************************************************************************)
C14_CallbackPerRegistration ==
    Live =>
       \A ev \in log.events :
          (ev.on \in TableHooks /\ Completed(ev))
          => \A kind \in KindsOn(ev.on), T \in RegTypes :
                LET k == Cardinality(RegistrationsOf(ev.table, MessageOf(T), kind))
                IN  k > 0 =>
                       /\ Cardinality({c \in RouterChannels :
                                          channels[c].ty = TypeIdOf(kind, T)}) = 1
                       /\ Len(MessagesOf(ChannelOf(kind, T), ev)) = k

\* add_table twice, one insert: two InsertMessage and two InsertUpdateMessage
C14_Witness ==
    /\ pc = "idle"
    /\ table_registers
          = <<[T |-> "Orders", pk |-> TRUE, messages |-> TableMessages_all],
              [T |-> "Orders", pk |-> TRUE, messages |-> TableMessages_all]>>
    /\ \E ev \in log.events :
          /\ ev.on = "insert" /\ Completed(ev)
          /\ channels[ChannelOf("Insert", "Orders")].delivered
                = <<InsertMessage(ev), InsertMessage(ev)>>
          /\ channels[ChannelOf("InsertUpdate", "Orders")].delivered
                = <<InsertUpdateMessage(ev, None, ev.args[1]),
                    InsertUpdateMessage(ev, None, ev.args[1])>>

\* the reducers and procedures the application registered
RegisteredReducers == {reducer_registers[i] : i \in 1..Len(reducer_registers)}

RegisteredProcedures == {procedure_registers[i] : i \in 1..Len(procedure_registers)}

\* the channels of a result message type
ResultChannels(kind, R) ==
    {c \in Channels : channels[c].ty = ResultTypeId(kind, R)}

ReducerResultMessage(ev) ==
    [kind |-> "ReducerResult", event |-> ev.event,
     result |-> [reducer |-> ev.table, event |-> ev.event, args |-> ev.args]]

\* what the receiver of a channel got or is about to get of one event
ReceivedOf(c, ev) ==
    SelectSeq(channels[c].delivered \o channels[c].queue,
              LAMBDA m : m.event = ev.event)

(***************************************************************************)
(* C15.  For a registered reducer there is one result channel, and each     *)
(* completion of an invocation puts exactly one ReducerResultMessage on     *)
(* it, carrying the arguments and the causal event; the receiver gets that  *)
(* message once, and nothing goes to any other channel.                     *)
(***************************************************************************)
C15_ReducerResultOnce ==
    Live =>
       \A ev \in log.events :
          (ev.on = "reducer" /\ ev.table \in RegisteredReducers /\ Completed(ev))
          => /\ Cardinality(ResultChannels("ReducerResult", ev.table)) = 1
             /\ \A c \in ResultChannels("ReducerResult", ev.table) :
                   /\ channels[c].registered
                   /\ MessagesOf(c, ev) = <<ReducerResultMessage(ev)>>
                   /\ ReceivedOf(c, ev) = <<ReducerResultMessage(ev)>>
             /\ \A c \in Channels \ ResultChannels("ReducerResult", ev.table) :
                   MessagesOf(c, ev) = <<>>

\* SetName completed with "x" and a tick delivered its one result message
C15_Witness ==
    /\ pc = "idle"
    /\ \E ev \in log.events :
          /\ ev.on = "reducer" /\ ev.table = "SetName" /\ ev.args = <<"x">>
          /\ Completed(ev)
          /\ \E c \in ResultChannels("ReducerResult", "SetName") :
                /\ channels[c].queue = <<>>
                /\ channels[c].delivered = <<ReducerResultMessage(ev)>>

ProcedureResultMessage(ev) ==
    [kind |-> "ProcedureResult", event |-> ev.event, result |-> ev.args]

(***************************************************************************)
(* C16.  Once the plugin is built (or connect_with_token has run), every    *)
(* registered procedure has its completion callback installed, and each     *)
(* completion of an invocation yields exactly one ProcedureResultMessage    *)
(* with the payload on the channel of that result type.                     *)
(***************************************************************************)
C16_ProcedureResultOnce ==
    Live =>
       /\ \A P \in RegisteredProcedures :
             \E i \in 1..Len(procedure_callbacks) : procedure_callbacks[i].P = P
       /\ \A ev \in log.events :
             (/\ ev.on = "procedure"
              /\ ev.table \in RegisteredProcedures
              /\ Completed(ev))
             => \E c \in ResultChannels("ProcedureResult", ev.table) :
                   MessagesOf(c, ev) = <<ProcedureResultMessage(ev)>>

(***************************************************************************)
(* C17.  No send waits on the consumer: a table, reducer or connection      *)
(* callback that is due completes its send, however many messages are       *)
(* queued and whether or not the host ever ticks again (unless the process  *)
(* itself has gone down).                                                   *)
(***************************************************************************)
C17_SendNeverWaits ==
    \A p \in Producers : (prod[p].pending # {}) ~> (prod[p].pending = {} \/ Halted)

\* two sends completed on one channel with no tick between them
C17_Witness ==
    /\ \A p \in Producers : prod[p].pending = {}
    /\ \E c \in Channels : channels[c].alive /\ Len(channels[c].queue) >= 2

(***************************************************************************)
(* C18.  The registry only grows: no step, at build or at                   *)
(* connect_with_token, removes a key from the sender map or replaces the    *)
(* sender stored under a key.                                               *)
(***************************************************************************)
C18_RegistryOnlyGrows ==
    [][\A k \in DOMAIN message_senders :
          /\ k \in DOMAIN message_senders'
          /\ message_senders'[k] = message_senders[k]]_vars

\* at connect_with_token a router found its key present and made no channel
C18_Witness ==
    /\ pc = "on_clone"
    /\ frame.mode = "connect"
    /\ frame.chan = 0
    /\ Cardinality(Keys) >= 2

(***************************************************************************)
(* C19.  Every registry entry keyed by a message type holds a sender of     *)
(* that message type, so the downcast of a router never meets another type  *)
(* ("Sender type mismatch" is never reached), and no callback is installed  *)
(* with a sender of another type than the message it makes.                 *)
(***************************************************************************)
C19_SenderTypeMatches ==
    /\ \A k \in Keys : message_senders[k].ty = k
    /\ pc = "on_clone"
       => /\ type_id(frame.fn, frame.T) \in Keys
          /\ message_senders[type_id(frame.fn, frame.T)].ty
                = DowncastType(frame.fn, frame.T)
    /\ \A i \in Callbacks :
          channels[callbacks[i].sender].ty = CallbackKey(callbacks[i])

\* a no-primary-key router downcast the sender a primary-key router stored
C19_Witness ==
    /\ pc = "on_install"
    /\ frame.fn = "on_delete_without_pk"
    /\ frame.chan = 0
    /\ \E i \in Callbacks :
          HasPk(callbacks[i].T) /\ callbacks[i].sender = frame.sender

(***************************************************************************)
(* C20.  A tick's drain of a registered receiver yields all the messages    *)
(* accumulated since the previous tick, in arrival order, and consumes      *)
(* them: what has been delivered is, at every moment, an initial part of    *)
(* what the channel accepted, each message at most once.                    *)
(***************************************************************************)
C20_DrainOncePerMessage ==
    [][/\ Tick => \A c \in Channels :
                     (channels[c].registered /\ channels[c].alive)
                     => /\ channels'[c].delivered
                              = channels[c].delivered \o channels[c].queue
                        /\ channels'[c].queue = <<>>
       /\ \A c \in Channels :
             /\ Len(channels'[c].delivered) <= Len(channels'[c].sent)
             /\ channels'[c].delivered
                   = SubSeq(channels'[c].sent, 1, Len(channels'[c].delivered))
             /\ channels[c].delivered
                   = SubSeq(channels'[c].delivered, 1, Len(channels[c].delivered))]_vars

\* a message drained by an earlier tick, another accumulated since
C20_Witness ==
    /\ pc = "idle"
    /\ \E c \in Channels :
          /\ channels[c].registered /\ channels[c].alive
          /\ channels[c].delivered # <<>>
          /\ channels[c].queue # <<>>

\* C21: in delayed-connect mode, building the plugin starts no connection,
\* creates no table or reducer channel and installs no callback; until
\* connect_with_token takes the stored configuration, the app holds only the
\* three registered lifecycle receivers and the two stored resources.
C21_DelayedBuildOnlyStores ==
    "StdbPluginConfig" \in resources =>
        /\ plugin.delayed_connect
        /\ conn = "none"
        /\ pc \in {"idle", "exited"}
        /\ resources = {"StdbPluginConfig", "DelayedPluginData"}
        /\ Keys = {}
        /\ callbacks = <<>>
        /\ reducer_callbacks = <<>>
        /\ procedure_callbacks = <<>>
        /\ [c \in Channels |-> channels[c].ty] = LifecycleKeys
        /\ \A c \in Channels : channels[c].registered /\ channels[c].sent = <<>>

C21_Witness ==
    /\ "StdbPluginConfig" \in resources
    /\ pc = "idle"
    /\ table_registers # <<>>
    /\ reducer_registers # <<>>
    /\ Len(channels) = 3

\* C22: the registry lock is held only for the get-or-create (map lookup,
\* channel construction, receiver registration, map insert): it is free while
\* the router clones the sender out, installs the callback on the table
\* handle and returns.
C22_ShortCriticalSection ==
    "message_senders" \in locks =>
        pc \in {"on_entry", "on_channel", "on_register", "on_store",
                "aborted", "panicked"}

\* the callbacks the table registrations install, in the order of the stored
\* closures and of the calls each closure makes
RECURSIVE CallbacksOfCalls(_, _)
CallbacksOfCalls(T, calls) ==
    IF calls = <<>> THEN <<>>
    ELSE [i \in 1..Len(Installs(Head(calls))) |->
             [T |-> T, on |-> Installs(Head(calls))[i].on,
              make |-> Installs(Head(calls))[i].make]]
         \o CallbacksOfCalls(T, Tail(calls))

RECURSIVE CallbacksOfRegisters(_)
CallbacksOfRegisters(regs) ==
    IF regs = <<>> THEN <<>>
    ELSE CallbacksOfCalls(Head(regs).T, ClosureCalls(Head(regs)))
         \o CallbacksOfRegisters(Tail(regs))

InstalledTableCallbacks ==
    [i \in Callbacks |-> [T |-> callbacks[i].T, on |-> callbacks[i].on,
                          make |-> callbacks[i].make]]

InstalledReducers == [i \in 1..Len(reducer_callbacks) |-> reducer_callbacks[i].R]

IsPrefix(s, t) == Len(s) <= Len(t) /\ s = SubSeq(t, 1, Len(s))

\* C23: in immediate build and in connect_with_token, the stored table
\* registrations run in the order they were added, then the stored reducer
\* registrations in the order they were added, each exactly once, and all of
\* them have run, with every channel registered, before run_fn is invoked.
C23_RegistrationsBeforeRun ==
    /\ IsPrefix(InstalledTableCallbacks, CallbacksOfRegisters(table_registers))
    /\ IsPrefix(InstalledReducers, reducer_registers)
    /\ reducer_callbacks # <<>> =>
          /\ InstalledTableCallbacks = CallbacksOfRegisters(table_registers)
          /\ \A i \in Callbacks : \A j \in 1..Len(reducer_callbacks) :
                callbacks[i].sender < reducer_callbacks[j].sender
    /\ (pc \in {"run", "insert_conn"} \/ conn = "running") =>
          /\ InstalledTableCallbacks = CallbacksOfRegisters(table_registers)
          /\ InstalledReducers = reducer_registers
          /\ \A i \in Callbacks : channels[callbacks[i].sender].registered
          /\ \A j \in 1..Len(reducer_callbacks) :
                channels[reducer_callbacks[j].sender].registered

C23_Witness ==
    /\ pc = "insert_conn"
    /\ conn = "running"
    /\ frame.mode = "connect"
    /\ Len(table_registers) = 2
    /\ table_registers[1] # table_registers[2]
    /\ Len(reducer_registers) = 2
    /\ Len(reducer_callbacks) = 2

\* C24: the receivers of the three lifecycle channels are registered with
\* the host queue before the connection is built, in immediate and in delayed
\* mode, so a connection callback only ever fires on a registered receiver.
C24_LifecycleRegisteredFirst ==
    /\ (conn # "none" \/ pc \in {"build_conn", "connect_conn"}) =>
          \A k \in 1..Len(LifecycleKeys) :
              /\ k <= Len(channels)
              /\ channels[k].ty = LifecycleKeys[k]
              /\ channels[k].by = "build"
              /\ channels[k].registered
    /\ \A p \in Producers :
          prod[p].ev.on \in LifecycleHooks =>
              channels[LifecycleSender(prod[p].ev.on)].registered

C24_Witness ==
    /\ plugin.delayed_connect
    /\ conn = "running"
    /\ \E p \in Producers :
          /\ prod[p].ev.on \in LifecycleHooks
          /\ 0 \in prod[p].pending
          /\ channels[LifecycleSender(prod[p].ev.on)].registered

\* the registry keys the stored table registrations ask for
KeysOfRegisters(regs) ==
    {type_id(ClosureCalls(regs[r])[k], regs[r].T) :
        <<r, k>> \in {x \in (1..Len(regs)) \X (1..8) :
                         x[2] <= Len(ClosureCalls(regs[x[1]]))}}

\* the bridge state that the stored registrations determine: registry keys,
\* registered receivers, installed callbacks, each sending on the channel the
\* registry holds for its message type
BridgeAsRegistered ==
    /\ Keys = KeysOfRegisters(table_registers)
    /\ \A k \in Keys : channels[message_senders[k].chan].registered
    /\ InstalledTableCallbacks = CallbacksOfRegisters(table_registers)
    /\ \A i \in Callbacks :
          callbacks[i].sender = message_senders[CallbackKey(callbacks[i])].chan
    /\ InstalledReducers = reducer_registers
    /\ \A j \in 1..Len(reducer_callbacks) :
          channels[reducer_callbacks[j].sender].registered

\* C25: for the same table and reducer registrations, a delayed build
\* followed by connect_with_token reaches the bridge state that immediate
\* build reaches: the setup of either mode, once its connection is built and
\* its registration loops are entered, arrives at run_fn with the registry
\* keys, registered receivers and installed callbacks that the registrations
\* determine.
C25_DelayedSameAsImmediate ==
    /\ pc = "insert_conn" => BridgeAsRegistered
    /\ frame.mode \in {"build", "connect"} => pc # "aborted"

\* C26: connect_with_token consumes the stored configuration, so a built
\* plugin gets at most one connection: a call that finds no StdbPluginConfig
\* (a second call, or a call on an app built in immediate mode) panics at
\* once, with the connection, the channels, the registry, the callbacks and
\* the resources left as they were.
C26_ConnectOnce ==
    [][ /\ (pc = "idle" /\ pc' \notin {"idle", "exited"}) =>
              IF "StdbPluginConfig" \in resources
              THEN /\ "StdbPluginConfig" \notin resources'
                   /\ conn = "none"
                   /\ pc' = "connect_data"
              ELSE /\ pc' = "panicked"
                   /\ UNCHANGED <<conn, channels, message_senders, callbacks,
                                  reducer_callbacks, procedure_callbacks,
                                  resources>>
        /\ (conn' = "built" /\ conn # "built") =>
              conn = "none" /\ "StdbPluginConfig" \notin resources
      ]_vars

C26_Witness ==
    /\ pc = "panicked"
    /\ plugin.delayed_connect
    /\ conn = "running"
    /\ "StdbConnection" \in resources
    /\ callbacks # <<>>

\* the row message type of a remote table
MessageOfTable(table) == IF table = "logs" THEN "LogsMsg" ELSE "OrdersMsg"

\* C27: a remote event changes only the channels of its own table and kind:
\* insert feeds InsertMessage and InsertUpdateMessage of the table's row
\* type, update UpdateMessage and InsertUpdateMessage, delete DeleteMessage;
\* every other channel, the registry and the installed callbacks stay as
\* they were, and a fed channel only gains the one message of the event.
C27_EventFrame ==
    [][ \A p \in Producers :
          prod'[p] # prod[p] =>
            /\ message_senders' = message_senders
            /\ callbacks' = callbacks
            /\ Len(channels') = Len(channels)
            /\ prod[p].pending = {} => channels' = channels
            /\ \A c \in Channels :
                  channels'[c] # channels[c] =>
                    /\ prod[p].ev.on \in TableHooks
                    /\ channels[c].ty.msg = MessageOfTable(prod[p].ev.table)
                    /\ channels[c].ty.kind \in KindsOn(prod[p].ev.on)
                    /\ channels'[c].registered = channels[c].registered
                    /\ channels'[c].alive = channels[c].alive
                    /\ channels'[c].delivered = channels[c].delivered
                    /\ Len(channels'[c].sent) = Len(channels[c].sent) + 1
                    /\ channels'[c].sent[Len(channels'[c].sent)].event
                          = prod[p].ev.event
      ]_vars

C27_Witness ==
    \E p \in Producers, c, d \in Channels :
        /\ prod[p].ev.on = "insert"
        /\ prod[p].ev.table = "orders"
        /\ Cardinality(prod[p].pending) = 1
        /\ channels[c].ty = [kind |-> "Insert", msg |-> "OrdersMsg"]
        /\ channels[c].sent # <<>>
        /\ channels[c].sent[Len(channels[c].sent)].event = prod[p].ev.event
        /\ channels[d].ty = [kind |-> "Insert", msg |-> "LogsMsg"]
        /\ channels[d].sent = <<>>

\* C28: building the plugin with no uri or no module name set fails before
\* any side effect: build goes no further than its panic, and no lifecycle
\* channel is created or registered, no connection is built, no stored
\* registration runs, and the registry and the app's resources stay empty.
C28_BuildFailsClean ==
    ~(plugin.uri /\ plugin.module_name) =>
        /\ pc \in {"config", "panicked"}
        /\ channels = <<>>
        /\ conn = "none"
        /\ Keys = {}
        /\ callbacks = <<>>
        /\ reducer_callbacks = <<>>
        /\ resources = {}
        /\ locks = {}
        /\ frame = NoFrame

C28_Witness ==
    /\ pc = "panicked"
    /\ plugin.uri
    /\ ~plugin.module_name
    /\ plugin.run_fn
    /\ table_registers # <<>>
    /\ reducer_registers # <<>>

\* the main thread is inside the registration loops of build or of
\* connect_with_token
InLoops ==
    pc \in {"table_lock", "table_loop", "closure", "on_lock", "on_entry",
            "on_channel", "on_register", "on_store", "on_clone", "on_install",
            "on_return", "reducer_lock", "reducer_loop", "reducer_channel",
            "reducer_register", "reducer_callback"}

\* the order in which the locks are taken: table_registers or
\* reducer_registers with nothing held, message_senders with table_registers
\* held, none of them twice; a producer thread takes and releases none
LockDiscipline ==
    /\ pc' # "deadlocked"
    /\ "table_registers" \in locks' \ locks => locks = {}
    /\ "reducer_registers" \in locks' \ locks => locks = {}
    /\ "message_senders" \in locks' \ locks => locks = {"table_registers"}
    /\ prod' # prod => locks' = locks

\* C29: registration never deadlocks and producers never contend with it:
\* the locks are taken in the one order table_registers (or
\* reducer_registers), then message_senders, never twice on the thread, no
\* callback takes any of them, and so the registration loops of build and of
\* connect_with_token, once entered, always run through to run_fn.
C29_RegistrationCompletes ==
    [][ /\ LockDiscipline
        /\ InLoops => (InLoops' \/ pc' = "run")
      ]_vars

====
